---- MODULE Spec2Model ----
(***************************************************************************)
(* tmtracery: a compiler from Turing machine descriptions to Tracery       *)
(* grammars (src/tmtracery.py).                                            *)
(*                                                                         *)
(* Python strings are modelled as sequences of one-character strings, so   *)
(* that formatting, substring tests ("x in s" on a str), startswith and    *)
(* reversed() are computed on characters as the code computes them.        *)
(* Python sets are TLA+ sets; a dict that is only indexed by key is a      *)
(* function (the key order of the OrderedDict machine_tracery decides no   *)
(* result and is left out); the dict whose iteration order decides a       *)
(* result (delta, in validate) is a sequence of entries with pairwise      *)
(* distinct keys.  Iterating a Python set visits its elements in an order  *)
(* the language does not fix: every order is a possible behaviour.         *)
(***************************************************************************)
EXTENDS Integers, Sequences, FiniteSets, TLC

VARIABLES
    machine_json,     \* main: the parsed machine description (json.load)
    input,            \* main: the input tape text
    verbose,          \* main: args.verbose
    pc,               \* main: the position of the run
    machine,          \* main: the TuringMachine built by from_json
    machine_tracery,  \* main: the grammar being assembled
    compiled,         \* history: the rule names assigned by the compile loop
    assignments,      \* history: how many assignments the compile loop made
    out_file,         \* the output file on disk
    error,            \* the exception that ended the run, if any
    fn_args,          \* the arguments of a directly applied function
    fn_out            \* the result of a directly applied function

vars == <<machine_json, input, verbose, pc, machine, machine_tracery,
          compiled, assignments, out_file, error, fn_args, fn_out>>

main_vars == <<machine_json, input, verbose, pc, machine, machine_tracery,
               compiled, assignments, out_file, error>>

-----------------------------------------------------------------------------
(* Bounds of the model                                                     *)

MaxStates == 3
MaxInput == 2

-----------------------------------------------------------------------------
(* Python str operations                                                   *)

\* "a in b" for two strings: a is a contiguous substring of b
IsSubstring(a, b) ==
    \E i \in 0..(Len(b) - Len(a)) : SubSeq(b, i + 1, i + Len(a)) = a

\* b.startswith(a)
StartsWith(b, a) == Len(a) <= Len(b) /\ SubSeq(b, 1, Len(a)) = a

\* the number of places where a occurs in b
Occurrences(a, b) ==
    Cardinality({i \in 0..(Len(b) - Len(a)) : SubSeq(b, i + 1, i + Len(a)) = a})

\* reversed(s)
Reversed(s) == [i \in 1..Len(s) |-> s[Len(s) + 1 - i]]

\* ''.join(parts)
RECURSIVE Join(_)
Join(parts) == IF parts = <<>> THEN <<>> ELSE Head(parts) \o Join(Tail(parts))

\* the characters of a string, as a set
Chars(s) == {s[i] : i \in 1..Len(s)}

-----------------------------------------------------------------------------
(* Module constants                                                        *)

\* directions = "><_"
directions == <<">", "<", "_">>

\* reserved_characters = '[],{}#"*\n \t'
reserved_characters == <<"[", "]", ",", "{", "}", "#", "\"", "*", "\n", " ", "\t">>

-----------------------------------------------------------------------------
(* String literals of the source                                           *)

Lit_state == <<"[", "s", "t", "a", "t", "e", ":">>
Lit_tape_right == <<"[", "t", "a", "p", "e", "_", "r", "i", "g", "h", "t", ":">>
Lit_POP == <<"P", "O", "P">>
Lit_direction == <<"[", "d", "i", "r", "e", "c", "t", "i", "o", "n", ":">>
Lit_close == <<"]">>
Lit_run_next ==
    <<"[", "r", "u", "n", "_", "n", "e", "x", "t", ":", "#", "a", "c", "t", "i", "v",
      "a", "t", "e", "_", "n", "e", "x", "t", "#", "]">>
Lit_star == <<"*">>
Lit_init_tape == <<"i", "n", "i", "t", "_", "t", "a", "p", "e">>
Lit_init_state == <<"i", "n", "i", "t", "_", "s", "t", "a", "t", "e">>
Lit_run == <<"r", "u", "n">>
Lit_run_verbose ==
    <<"#", "s", "t", "a", "t", "e", "#", "#", "t", "a", "p", "e", "_", "r", "i", "g",
      "h", "t", "#", " ">>
Lit_activate == <<"a", "c", "t", "i", "v", "a", "t", "e">>
Lit_tape == <<"t", "a", "p", "e">>
Lit_newline_star == <<"\n", "*">>
Lit_blank == <<"b", "l", "a", "n", "k">>
Lit_padder_left == <<"p", "a", "d", "d", "e", "r", "_", "l", "e", "f", "t">>
Lit_padder_right == <<"p", "a", "d", "d", "e", "r", "_", "r", "i", "g", "h", "t">>

-----------------------------------------------------------------------------
(* StateSymbol and Action                                                  *)

\* a faulty variant of StateSymbol_code: the state is formatted twice
StateSymbol_code_state_twice(state, symbol) ==
    Lit_star \o state \o Lit_star \o state

\* a faulty variant of StateSymbol_code: the symbol is formatted twice
StateSymbol_code_symbol_twice(state, symbol) ==
    Lit_star \o symbol \o Lit_star \o symbol

\* StateSymbol.code: '*{0}*{1}'.format(self.state, self.symbol)
StateSymbol_code(state, symbol) ==
    Lit_star \o state \o Lit_star \o symbol

\* a faulty variant of Action_code: only the accept state ends the run
Action_code_accept_only(action, accept, reject) ==
    LET run_next == IF action.state = accept THEN <<>> ELSE Lit_run_next
    IN  Lit_state \o action.state \o Lit_close
          \o Lit_tape_right \o Lit_POP \o Lit_close
          \o Lit_tape_right \o action.symbol \o Lit_close
          \o Lit_direction \o action.direction \o Lit_close
          \o run_next

\* a faulty variant of Action_code: "and" where the code has "or"
Action_code_and(action, accept, reject) ==
    LET run_next == IF action.state = accept /\ action.state = reject
                    THEN <<>>
                    ELSE Lit_run_next
    IN  Lit_state \o action.state \o Lit_close
          \o Lit_tape_right \o Lit_POP \o Lit_close
          \o Lit_tape_right \o action.symbol \o Lit_close
          \o Lit_direction \o action.direction \o Lit_close
          \o run_next

\* Action.code
Action_code(action, accept, reject) ==
    LET run_next == IF action.state = accept \/ action.state = reject
                    THEN <<>>
                    ELSE Lit_run_next
    IN  Lit_state \o action.state \o Lit_close
          \o Lit_tape_right \o Lit_POP \o Lit_close
          \o Lit_tape_right \o action.symbol \o Lit_close
          \o Lit_direction \o action.direction \o Lit_close
          \o run_next

Action(state, symbol, direction) ==
    [state |-> state, symbol |-> symbol, direction |-> direction]

-----------------------------------------------------------------------------
(* TuringMachine                                                           *)

\* TuringMachine.string_is_valid
string_is_valid(string) ==
    \A i \in 1..Len(reserved_characters) :
        ~IsSubstring(<<reserved_characters[i]>>, string)

\* a faulty variant of symbol_is_valid: the length is not checked
symbol_is_valid_any_length(symbol) ==
    ~IsSubstring(symbol, reserved_characters)

\* TuringMachine.symbol_is_valid
symbol_is_valid(symbol) ==
    Len(symbol) = 1 /\ ~IsSubstring(symbol, reserved_characters)

\* the keys of delta, and delta[k]
DeltaKeys(delta) == {delta[i].key : i \in 1..Len(delta)}
DeltaGet(delta, k) ==
    delta[CHOOSE i \in 1..Len(delta) : delta[i].key = k].action

NoMachine == [none |-> TRUE]

\* the set a JSON list becomes under set(...)
SetOf(list) == {list[i] : i \in 1..Len(list)}

\* TuringMachine.from_json: the machine, or the AssertionError raised
from_json(mj) ==
    LET states == SetOf(mj.states)
        symbols == SetOf(mj.symbols)
    IN  IF Cardinality(states) # Len(mj.states)
        THEN [ok |-> FALSE, error |-> <<"State names not unique", <<>>>>]
        ELSE IF Cardinality(symbols) # Len(mj.symbols)
        THEN [ok |-> FALSE, error |-> <<"Symbols not unique", <<>>>>]
        ELSE IF Cardinality(DeltaKeys(mj.delta)) # Len(mj.delta)
        THEN [ok |-> FALSE, error |-> <<"AssertionError", <<>>>>]
        ELSE [ok |-> TRUE,
              machine |-> [states |-> states,
                           symbols |-> symbols,
                           blank_symbol |-> mj.blank_symbol,
                           start_state |-> mj.start_state,
                           accept_state |-> mj.accept_state,
                           reject_state |-> mj.reject_state,
                           delta |-> mj.delta]]

\* the messages of validate's assertions
Msg_state_reserved == "state name \"{}\" contains reserved character"
Msg_symbol_reserved == "symbol \"{}\" is reserved"
Msg_blank_single == "blank symbol \"{}\" must be a single symbol"
Msg_blank_missing == "blank symbol \"{}\" not in symbols"
Msg_start_missing == "start state \"{}\" not in states"
Msg_accept_missing == "accept state \"{}\" not in states"
Msg_reject_missing == "reject state \"{}\" not in states"
Msg_from_missing == "transition starts in nonexistent state \"{}\""
Msg_read_missing == "transition requires nonexistent symbol \"{}\""
Msg_from_accept == "transition starts in accepting state \"{}\""
Msg_from_reject == "transition starts in rejecting state \"{}\""
Msg_to_missing == "transition goes to nonexistent state \"{}\""
Msg_write_missing == "transition writes nonexistent symbol \"{}\""
Msg_direction == "transition goes in invalid direction \"{}\""

\* action.direction in directions: a substring test on the str "><_"
direction_ok(direction) == IsSubstring(direction, directions)

\* the first assertion that fails for one entry of delta, <<>> if none does
validate_transition(m, entry) ==
    LET state_symbol == [state |-> entry.key[1], symbol |-> entry.key[2]]
        action == entry.action
    IN  IF state_symbol.state \notin m.states
            THEN <<Msg_from_missing, state_symbol.state>>
        ELSE IF state_symbol.symbol \notin m.symbols
            THEN <<Msg_read_missing, state_symbol.symbol>>
        ELSE IF state_symbol.state = m.accept_state
            THEN <<Msg_from_accept, state_symbol.state>>
        ELSE IF state_symbol.state = m.reject_state
            THEN <<Msg_from_reject, state_symbol.state>>
        ELSE IF action.state \notin m.states
            THEN <<Msg_to_missing, action.state>>
        ELSE IF action.symbol \notin m.symbols
            THEN <<Msg_write_missing, action.symbol>>
        ELSE IF ~direction_ok(action.direction)
            THEN <<Msg_direction, action.direction>>
        ELSE <<>>

\* the loop over delta.items(): the error of the first entry that fails
validate_delta(m) ==
    LET bad == {i \in 1..Len(m.delta) : validate_transition(m, m.delta[i]) # <<>>}
    IN  IF bad = {} THEN {}
        ELSE {validate_transition(m, m.delta[CHOOSE i \in bad : \A j \in bad : i <= j])}

\* TuringMachine.validate: the set of AssertionErrors the call can raise (a
\* set is iterated in an unspecified order, so the state or symbol named in
\* the message is any one that fails); the empty set when it returns True
validate(m) ==
    LET bad_states == {s \in m.states : ~string_is_valid(s)}
        bad_symbols == {y \in m.symbols : ~symbol_is_valid(y)}
    IN  IF bad_states # {}
            THEN {<<Msg_state_reserved, s>> : s \in bad_states}
        ELSE IF bad_symbols # {}
            THEN {<<Msg_symbol_reserved, y>> : y \in bad_symbols}
        ELSE IF Len(m.blank_symbol) # 1
            THEN {<<Msg_blank_single, m.blank_symbol>>}
        ELSE IF m.blank_symbol \notin m.symbols
            THEN {<<Msg_blank_missing, m.blank_symbol>>}
        ELSE IF m.start_state \notin m.states
            THEN {<<Msg_start_missing, m.start_state>>}
        ELSE IF m.accept_state \notin m.states
            THEN {<<Msg_accept_missing, m.accept_state>>}
        ELSE IF m.reject_state \notin m.states
            THEN {<<Msg_reject_missing, m.reject_state>>}
        ELSE validate_delta(m)

\* a faulty variant of validate_input: only the first character is checked
validate_input_first_only(m, inp) == inp = <<>> \/ <<inp[1]>> \in m.symbols

\* validate_input: TRUE when no assertion fails
validate_input(m, inp) == \A i \in 1..Len(inp) : <<inp[i]>> \in m.symbols

-----------------------------------------------------------------------------
(* The base grammar tmtracery.json, which main loads and overlays.  It     *)
(* supplies the dispatcher (run), the continuation activation              *)
(* (activate_next) and the tape stores.                                    *)

Lit_origin == <<"o", "r", "i", "g", "i", "n">>
Lit_activate_next == Lit_activate \o <<"_", "n", "e", "x", "t">>
Lit_tape_left_key == Lit_tape \o <<"_", "l", "e", "f", "t">>

tracery_base ==
    LET keys == {Lit_origin, Lit_run, Lit_activate_next, Lit_tape_left_key}
    IN  [k \in keys |->
            IF k = Lit_origin THEN <<"#", "r", "u", "n", "#">>
            ELSE IF k = Lit_run THEN <<"#", "*", "#">>
            ELSE IF k = Lit_activate_next THEN <<"#", "r", "u", "n", "#">>
            ELSE <<>>]

\* d[k] = v on a dict
Put(d, k, v) == [x \in (DOMAIN d) \cup {k} |-> IF x = k THEN v ELSE d[x]]

\* d[k] = f[k] for every key k of f
PutAll(d, f) ==
    [x \in (DOMAIN d) \cup (DOMAIN f) |-> IF x \in DOMAIN f THEN f[x] ELSE d[x]]

-----------------------------------------------------------------------------
(* main, after the arguments and the files are read                        *)

\* a faulty variant of init_tape: the input is not reversed
init_tape_in_order(inp) ==
    Join([i \in 1..Len(inp) |-> Lit_tape_right \o <<inp[i]>> \o Lit_close])

\* ''.join('[tape_right:{}]'.format(symbol) for symbol in reversed(input))
init_tape(inp) ==
    Join([i \in 1..Len(inp) |-> Lit_tape_right \o <<Reversed(inp)[i]>> \o Lit_close])

\* "\n*{}*".format(k)
annotation(k) == Lit_newline_star \o k \o Lit_star

\* the keys the verbose loop annotates
annotated_key(k) == ~IsSubstring(Lit_activate, k) /\ ~StartsWith(k, Lit_tape)

\* a faulty variant of verbose_wrap: init_tape is left out of the loop
verbose_wrap_without_init_tape(d) ==
    LET d1 == Put(d, Lit_run, Lit_run_verbose \o d[Lit_run])
    IN  [k \in DOMAIN d1 |->
            IF annotated_key(k) /\ k # Lit_init_tape
            THEN annotation(k) \o d1[k] ELSE d1[k]]

\* the body of "if args.verbose:"
verbose_wrap(d) ==
    LET d1 == Put(d, Lit_run, Lit_run_verbose \o d[Lit_run])
    IN  [k \in DOMAIN d1 |-> IF annotated_key(k) THEN annotation(k) \o d1[k] ELSE d1[k]]

\* the states the compile loop does not skip
live_states(m) == m.states \ {m.accept_state, m.reject_state}

\* the orders in which a set can be iterated
Orders(S) ==
    {f \in [1..Cardinality(S) -> S] : \A i, j \in 1..Cardinality(S) : f[i] = f[j] => i = j}

\* the pairs in the order of the nested loops, for one order of each set
LoopPairs(state_order, symbol_order) ==
    [k \in 1..(Len(state_order) * Len(symbol_order)) |->
        <<state_order[((k - 1) \div Len(symbol_order)) + 1],
          symbol_order[((k - 1) % Len(symbol_order)) + 1]>>]

RECURSIVE AssignRules(_, _, _, _)
\* line 139 for the first n pairs, in order
AssignRules(m, d, pairs, n) ==
    IF n = 0 THEN d
    ELSE Put(AssignRules(m, d, pairs, n - 1),
             StateSymbol_code(pairs[n][1], pairs[n][2]),
             Action_code(DeltaGet(m.delta, pairs[n]), m.accept_state, m.reject_state))

\* a faulty variant of compile_loop: a pair without a transition is skipped
compile_loop_skip_missing(m, d, pairs) ==
    LET present == SelectSeq(pairs, LAMBDA p : p \in DeltaKeys(m.delta))
    IN  [ok |-> TRUE,
         grammar |-> AssignRules(m, d, present, Len(present)),
         keys |-> {StateSymbol_code(present[i][1], present[i][2]) : i \in 1..Len(present)},
         assignments |-> Len(present)]

\* the compile loop over pairs in a given order: machine.delta[state_symbol]
\* raises KeyError at the first pair delta does not hold, and the
\* assignments made before it stay in the dict
compile_loop(m, d, pairs) ==
    LET missing == {i \in 1..Len(pairs) : pairs[i] \notin DeltaKeys(m.delta)}
        n == IF missing = {} THEN Len(pairs)
             ELSE (CHOOSE i \in missing : \A j \in missing : i <= j) - 1
    IN  [ok |-> missing = {},
         grammar |-> AssignRules(m, d, pairs, n),
         keys |-> {StateSymbol_code(pairs[i][1], pairs[i][2]) : i \in 1..n},
         assignments |-> n]

\* the outcomes of the compile loop, one for each order in which the two
\* sets can be iterated
compile_rules(m, d) ==
    {compile_loop(m, d, LoopPairs(state_order, symbol_order)) :
        state_order \in Orders(live_states(m)), symbol_order \in Orders(m.symbols)}

EmptyDict == <<>>
NoFile == [written |-> FALSE]
NoError == <<>>

Abort(e) ==
    /\ pc' = "aborted"
    /\ error' = e

\* line 116
FromJson ==
    /\ pc = "from_json"
    /\ LET r == from_json(machine_json)
       IN  IF r.ok
           THEN /\ machine' = r.machine
                /\ pc' = "validate"
                /\ error' = error
           ELSE /\ Abort(r.error)
                /\ machine' = machine
    /\ UNCHANGED <<machine_json, input, verbose, machine_tracery, compiled,
                   assignments, out_file, fn_args, fn_out>>

\* line 117
Validate ==
    /\ pc = "validate"
    /\ IF validate(machine) = {}
       THEN /\ pc' = "validate_input"
            /\ error' = error
       ELSE \E e \in validate(machine) : Abort(e)
    /\ UNCHANGED <<machine_json, input, verbose, machine, machine_tracery, compiled,
                   assignments, out_file, fn_args, fn_out>>

\* line 118
ValidateInput ==
    /\ pc = "validate_input"
    /\ IF validate_input(machine, input)
       THEN /\ pc' = "assemble"
            /\ error' = error
       ELSE Abort(<<"AssertionError", <<>>>>)
    /\ UNCHANGED <<machine_json, input, verbose, machine, machine_tracery, compiled,
                   assignments, out_file, fn_args, fn_out>>

\* lines 119-127
Assemble ==
    /\ pc = "assemble"
    /\ LET d1 == Put(tracery_base, Lit_init_tape, init_tape(input))
           d2 == Put(d1, Lit_init_state, Lit_state \o machine.start_state \o Lit_close)
       IN  machine_tracery' = IF verbose THEN verbose_wrap(d2) ELSE d2
    /\ pc' = "padders"
    /\ UNCHANGED <<machine_json, input, verbose, machine, compiled, assignments,
                   out_file, error, fn_args, fn_out>>

\* lines 128-131
Padders ==
    /\ pc = "padders"
    /\ LET d1 == Put(machine_tracery, Lit_blank, machine.blank_symbol)
           keys == {Lit_padder_left \o y : y \in machine.symbols}
                     \cup {Lit_padder_right \o y : y \in machine.symbols}
       IN  machine_tracery' = PutAll(d1, [k \in keys |-> <<>>])
    /\ pc' = "compile"
    /\ UNCHANGED <<machine_json, input, verbose, machine, compiled, assignments,
                   out_file, error, fn_args, fn_out>>

\* lines 132-139
Compile ==
    /\ pc = "compile"
    /\ \E r \in compile_rules(machine, machine_tracery) :
          /\ machine_tracery' = r.grammar
          /\ compiled' = r.keys
          /\ assignments' = r.assignments
          /\ IF r.ok
             THEN pc' = "write" /\ error' = error
             ELSE Abort(<<"KeyError", <<>>>>)
    /\ UNCHANGED <<machine_json, input, verbose, machine, out_file, fn_args, fn_out>>

\* lines 140-141
WriteOutput ==
    /\ pc = "write"
    /\ out_file' = [written |-> TRUE, grammar |-> machine_tracery]
    /\ pc' = "done"
    /\ UNCHANGED <<machine_json, input, verbose, machine, machine_tracery, compiled,
                   assignments, error, fn_args, fn_out>>

-----------------------------------------------------------------------------
(* The machine descriptions and inputs main is run on                      *)

Digits == <<"0", "1", "2", "3", "4", "5", "6", "7", "8", "9">>
StateName(i) == <<"q", Digits[i]>>
StateNames == {StateName(i) : i \in 1..MaxStates}
Sym0 == <<"0">>
Sym1 == <<"1">>

RECURSIVE StringsUpTo(_, _)
\* the strings of at most n characters over an alphabet
StringsUpTo(alphabet, n) ==
    IF n = 0 THEN {<<>>}
    ELSE LET shorter == StringsUpTo(alphabet, n - 1)
         IN  shorter \cup {Append(s, c) : s \in shorter, c \in alphabet}

\* the transition table: on 0 go to target0 and move right, on any other
\* symbol go to target1 and move left, writing the blank; one pair may be
\* left out
TableFor(states, symbols, accept, reject, target0, target1, missing) ==
    LET n == Len(states) * Len(symbols)
        all == [k \in 1..n |-> <<states[((k - 1) \div Len(symbols)) + 1],
                                 symbols[((k - 1) % Len(symbols)) + 1]>>]
        kept(p) == p[1] # accept /\ p[1] # reject /\ p # missing
        keys == SelectSeq(all, kept)
    IN  [i \in 1..Len(keys) |->
            [key |-> keys[i],
             action |-> IF keys[i][2] = Sym0
                        THEN Action(target0, Sym0, <<">">>)
                        ELSE Action(target1, Sym0, <<"<">>)]]

StateLists ==
    {[i \in 1..n |-> StateName(i)] : n \in 1..MaxStates}
        \cup {<<StateName(1), StateName(1)>>}
SymbolLists == {<<Sym0>>, <<Sym0, Sym1>>}

MachineDescriptions ==
    {[states |-> states, symbols |-> symbols, blank_symbol |-> Sym0,
      start_state |-> StateName(1), accept_state |-> accept, reject_state |-> reject,
      delta |-> TableFor(states, symbols, accept, reject, target0, target1, missing)] :
        states \in StateLists, symbols \in SymbolLists,
        accept \in StateNames, reject \in StateNames,
        target0 \in StateNames, target1 \in StateNames,
        missing \in {<<>>} \cup {<<s, Sym0>> : s \in StateNames}}

FnIdle == [fn |-> "none"]

Init ==
    /\ machine_json \in MachineDescriptions
    /\ input \in StringsUpTo({"0", "1"}, MaxInput)
    /\ verbose \in BOOLEAN
    /\ pc = "from_json"
    /\ machine = NoMachine
    /\ machine_tracery = EmptyDict
    /\ compiled = {}
    /\ assignments = 0
    /\ out_file = NoFile
    /\ error = NoError
    /\ fn_args = FnIdle
    /\ fn_out = FnIdle

Next ==
    \/ FromJson
    \/ Validate
    \/ ValidateInput
    \/ Assemble
    \/ Padders
    \/ Compile
    \/ WriteOutput

Spec == Init /\ [][Next]_vars

-----------------------------------------------------------------------------
(* The functions applied directly, on arguments main never passes them     *)

MaxIdLen == 2

\* main is not running
MainIdle ==
    /\ machine_json = FnIdle
    /\ input = <<>>
    /\ verbose = FALSE
    /\ pc = "idle"
    /\ machine = NoMachine
    /\ machine_tracery = EmptyDict
    /\ compiled = {}
    /\ assignments = 0
    /\ out_file = NoFile
    /\ error = NoError

\* identifiers, valid and not
Identifiers == StringsUpTo({"a", "*"}, MaxIdLen)
SymbolTexts == {<<"a">>, <<"b">>, <<"*">>, <<>>, <<"a", "b">>, <<"*", "a">>}

\* StateSymbol(s1, y1).code() and StateSymbol(s2, y2).code()
ApplyStateSymbolCode ==
    /\ fn_args.fn = "StateSymbol.code"
    /\ fn_out = FnIdle
    /\ fn_out' = [fn |-> "StateSymbol.code",
                  code1 |-> StateSymbol_code(fn_args.s1, fn_args.y1),
                  code2 |-> StateSymbol_code(fn_args.s2, fn_args.y2)]
    /\ UNCHANGED <<main_vars, fn_args>>

InitCode ==
    /\ MainIdle
    /\ fn_args \in {[fn |-> "StateSymbol.code", s1 |-> s1, y1 |-> y1, s2 |-> s2, y2 |-> y2] :
                      s1 \in Identifiers, y1 \in SymbolTexts,
                      s2 \in Identifiers, y2 \in SymbolTexts}
    /\ fn_out = FnIdle

SpecCode == InitCode /\ [][ApplyStateSymbolCode]_vars

\* every string that passes "direction in directions", and some that do not
DirectionTexts ==
    {SubSeq(directions, i, j) : i \in 1..(Len(directions) + 1), j \in 0..Len(directions)}
        \cup {<<"x">>, <<"<", ">">>, <<"]">>}

\* Action(state, symbol, direction).code(accept, reject)
ApplyActionCode ==
    /\ fn_args.fn = "Action.code"
    /\ fn_out = FnIdle
    /\ fn_out' = [fn |-> "Action.code",
                  body |-> Action_code(fn_args.action, fn_args.accept, fn_args.reject)]
    /\ UNCHANGED <<main_vars, fn_args>>

InitAction ==
    /\ MainIdle
    /\ fn_args \in {[fn |-> "Action.code", action |-> Action(t, w, d),
                     accept |-> a, reject |-> r] :
                      t \in Identifiers \cup {Lit_run_next},
                      w \in {<<"a">>, <<"0">>, <<"a", "0">>, <<"]">>},
                      d \in DirectionTexts,
                      a \in Identifiers \cup {Lit_run_next}, r \in Identifiers}
    /\ fn_out = FnIdle

SpecAction == InitAction /\ [][ApplyActionCode]_vars

\* machine.validate() on a TuringMachine
ApplyValidate ==
    /\ fn_args.fn = "validate"
    /\ fn_out = FnIdle
    /\ IF validate(fn_args.machine) = {}
       THEN fn_out' = [fn |-> "validate", ok |-> TRUE]
       ELSE \E e \in validate(fn_args.machine) :
                fn_out' = [fn |-> "validate", ok |-> FALSE, error |-> e]
    /\ UNCHANGED <<main_vars, fn_args>>

BadStateName == <<"q", " ", "3">>
LongSymbol == <<"0", "1">>

\* one-entry tables, and two-entry tables with distinct keys
TransitionEntries ==
    {[key |-> <<s, y>>, action |-> Action(t, w, d)] :
        s \in {StateName(1), StateName(2)}, y \in {Sym0, Sym1},
        t \in {StateName(1), StateName(2)}, w \in {Sym0, Sym1},
        d \in {<<">">>, <<"_">>, <<>>, <<">", "<">>, <<"x">>}}
FewTransitionEntries ==
    {e \in TransitionEntries :
        e.action.state = StateName(1) /\ e.action.symbol = Sym0
            /\ e.action.direction \in {<<">">>, <<"x">>}}
TransitionTables ==
    {<<>>} \cup {<<e>> : e \in TransitionEntries}
           \cup {t \in FewTransitionEntries \X FewTransitionEntries :
                    t[1].key # t[2].key}

TuringMachines ==
    {[states |-> states, symbols |-> symbols, blank_symbol |-> blank,
      start_state |-> start, accept_state |-> accept, reject_state |-> reject,
      delta |-> delta] :
        states \in (SUBSET {StateName(1), StateName(2), BadStateName}) \ {{}},
        symbols \in (SUBSET {Sym0, Sym1, LongSymbol, Lit_star}) \ {{}},
        blank \in {Sym0, Sym1, LongSymbol},
        start \in {StateName(1), StateName(2)},
        accept \in {StateName(1), StateName(2)},
        reject \in {StateName(1), StateName(2)},
        delta \in TransitionTables}

InitValidate ==
    /\ MainIdle
    /\ fn_args \in {[fn |-> "validate", machine |-> m] : m \in TuringMachines}
    /\ fn_out = FnIdle

SpecValidate == InitValidate /\ [][ApplyValidate]_vars

-----------------------------------------------------------------------------
(* Definitions the properties are stated with                              *)

\* the compiled rules of a grammar: no other key starts with the marker
RuleNames(g) == {k \in DOMAIN g : StartsWith(k, Lit_star)}

\* the text has the trace annotation of key k in front
Annotated(g, k) == StartsWith(g[k], <<"\n", "*">> \o k \o <<"*">>)

\* the continuation reference occurs in a rule body
HasContinuation(body) == Occurrences(Lit_run_next, body) > 0

ReservedSet == {"[", "]", ",", "{", "}", "#", "\"", "*", "\n", " ", "\t"}
ValidState(s) == Chars(s) \cap ReservedSet = {}
ValidSymbol(y) == Len(y) = 1 /\ y[1] \notin ReservedSet

\* the run got past from_json and validate
Validated == pc \in {"validate_input", "assemble", "padders", "compile", "write", "done"}
                \/ (pc = "aborted" /\ error[1] \in {"AssertionError", "KeyError"}
                        /\ machine # NoMachine)

\* some (state, symbol) pair of a non-halting state has no transition
HasGap(m) ==
    \E s \in m.states, y \in m.symbols :
        /\ s # m.accept_state
        /\ s # m.reject_state
        /\ \A i \in 1..Len(m.delta) : m.delta[i].key # <<s, y>>

InputInAlphabet == \A i \in 1..Len(input) : \E y \in machine.symbols : y = <<input[i]>>

\* (|states| - 2) * |symbols|
ClaimedRuleCount(m) == (Cardinality(m.states) - 2) * Cardinality(m.symbols)

\* the number of states that are neither accept nor reject, times |symbols|
LiveRuleCount(m) ==
    (Cardinality(m.states) - (IF m.accept_state = m.reject_state THEN 1 ELSE 2))
        * Cardinality(m.symbols)

-----------------------------------------------------------------------------
(* C1 *)

\* C1, as stated: a run of main that completes has written
\* (|states| - 2) * |symbols| compiled rules, each under its own name.
C1_AsStated ==
    pc = "done" =>
        /\ Cardinality(RuleNames(out_file.grammar)) = ClaimedRuleCount(machine)
        /\ assignments = Cardinality(RuleNames(out_file.grammar))

\* C1, amended: a run of main that completes has written one compiled rule
\* per (state, symbol) pair whose state is neither the accept nor the reject
\* state, each under its own name; that is (|states| - 2) * |symbols| rules
\* exactly when accept_state # reject_state, and (|states| - 1) * |symbols|
\* when they coincide.
C1_RuleCount ==
    pc = "done" =>
        /\ Cardinality(RuleNames(out_file.grammar)) = LiveRuleCount(machine)
        /\ assignments = Cardinality(RuleNames(out_file.grammar))
        /\ compiled = RuleNames(out_file.grammar)
        /\ (machine.accept_state # machine.reject_state
              => Cardinality(RuleNames(out_file.grammar)) = ClaimedRuleCount(machine))

C1_Witness ==
    /\ pc = "done"
    /\ machine.accept_state = machine.reject_state
    /\ machine.accept_state = machine.start_state
    /\ Cardinality(RuleNames(out_file.grammar)) >= 4

-----------------------------------------------------------------------------
(* C2 *)

\* the positions at which a occurs in b
Positions(a, b) == {i \in 1..(Len(b) - Len(a) + 1) : SubSeq(b, i, i + Len(a) - 1) = a}

-----------------------------------------------------------------------------
(* C3 *)

\* C3: two (state, symbol) pairs whose states pass string_is_valid and whose
\* symbols pass symbol_is_valid have the same rule name only if they are the
\* same pair.
C3_Injective ==
    (/\ fn_out # FnIdle
     /\ fn_out.fn = "StateSymbol.code"
     /\ string_is_valid(fn_args.s1) /\ string_is_valid(fn_args.s2)
     /\ symbol_is_valid(fn_args.y1) /\ symbol_is_valid(fn_args.y2)
     /\ fn_out.code1 = fn_out.code2)
    => (fn_args.s1 = fn_args.s2 /\ fn_args.y1 = fn_args.y2)

C3_Witness ==
    /\ fn_out # FnIdle
    /\ fn_out.fn = "StateSymbol.code"
    /\ fn_args.s1 = <<>>
    /\ fn_args.s2 = <<"a">>
    /\ symbol_is_valid(fn_args.y1)
    /\ fn_args.y1 = fn_args.y2
    /\ fn_out.code1 # fn_out.code2

-----------------------------------------------------------------------------
(* C4 *)

\* C4, as stated: after a verbose run every compiled rule carries the trace
\* annotation of its own name, and init_tape and the entries whose key
\* contains "activate" do not.
C4_AsStated ==
    (pc = "done" /\ verbose) =>
        LET g == out_file.grammar
        IN  /\ \A k \in RuleNames(g) : Annotated(g, k)
            /\ ~Annotated(g, Lit_init_tape)
            /\ \A k \in DOMAIN g : IsSubstring(Lit_activate, k) => ~Annotated(g, k)

\* C4, amended: after a verbose run no compiled rule carries the trace
\* annotation (the rules are added after the annotating loop has run);
\* init_tape and init_state carry it, and the entries whose key contains
\* "activate" do not.
C4_VerboseWrapping ==
    (pc = "done" /\ verbose) =>
        LET g == out_file.grammar
        IN  /\ \A k \in RuleNames(g) : ~Annotated(g, k)
            /\ Annotated(g, Lit_init_tape)
            /\ Annotated(g, Lit_init_state)
            /\ \A k \in DOMAIN g : IsSubstring(Lit_activate, k) => ~Annotated(g, k)

C4_Witness ==
    /\ pc = "done"
    /\ verbose
    /\ Cardinality(RuleNames(out_file.grammar)) >= 2
    /\ \E k \in DOMAIN out_file.grammar : IsSubstring(Lit_activate, k)

-----------------------------------------------------------------------------
(* C5 *)

\* the kinds of violation the claim lists, each with the message it names
ListedKinds ==
    {"state", "symbol", "blank", "start", "accept", "reject", "from_accept", "from_reject"}

KindMessage(k) ==
    CASE k = "state" -> "state name \"{}\" contains reserved character"
      [] k = "symbol" -> "symbol \"{}\" is reserved"
      [] k = "blank" -> "blank symbol \"{}\" not in symbols"
      [] k = "start" -> "start state \"{}\" not in states"
      [] k = "accept" -> "accept state \"{}\" not in states"
      [] k = "reject" -> "reject state \"{}\" not in states"
      [] k = "from_accept" -> "transition starts in accepting state \"{}\""
      [] k = "from_reject" -> "transition starts in rejecting state \"{}\""

\* machine m has a violation of kind k
HasViolation(m, k) ==
    CASE k = "state" -> \E s \in m.states : ~ValidState(s)
      [] k = "symbol" -> \E y \in m.symbols : Len(y) > 1
      [] k = "blank" -> \A y \in m.symbols : y # m.blank_symbol
      [] k = "start" -> \A s \in m.states : s # m.start_state
      [] k = "accept" -> \A s \in m.states : s # m.accept_state
      [] k = "reject" -> \A s \in m.states : s # m.reject_state
      [] k = "from_accept" -> \E i \in 1..Len(m.delta) : m.delta[i].key[1] = m.accept_state
      [] k = "from_reject" -> \E i \in 1..Len(m.delta) : m.delta[i].key[1] = m.reject_state

\* machine m breaks a check that is not among the listed kinds
HasOtherViolation(m) ==
    \/ \E y \in m.symbols : ~ValidSymbol(y)
    \/ Len(m.blank_symbol) # 1
    \/ \E i \in 1..Len(m.delta) :
         \/ \A s \in m.states : s # m.delta[i].key[1]
         \/ \A y \in m.symbols : y # m.delta[i].key[2]
         \/ \A s \in m.states : s # m.delta[i].action.state
         \/ \A y \in m.symbols : y # m.delta[i].action.symbol
         \/ ~IsSubstring(m.delta[i].action.direction, <<">", "<", "_">>)

\* C5: validate raises for every machine with a violation of a listed
\* kind; the message of a listed kind is raised only for a machine that has
\* a violation of that kind, and is the one raised when that is the only
\* thing wrong with the machine; the messages of the kinds differ pairwise.
C5_ValidateRejects ==
    (fn_out # FnIdle /\ fn_out.fn = "validate") =>
        LET m == fn_args.machine
        IN  /\ (\E k \in ListedKinds : HasViolation(m, k)) => ~fn_out.ok
            /\ ~fn_out.ok =>
                 \A k \in ListedKinds :
                     fn_out.error[1] = KindMessage(k) =>
                         (HasViolation(m, k)
                            \/ (k = "symbol" /\ \E y \in m.symbols : ~ValidSymbol(y)))
            /\ \A k \in ListedKinds :
                 (/\ HasViolation(m, k)
                  /\ \A j \in ListedKinds \ {k} : ~HasViolation(m, j)
                  /\ (k # "symbol" => ~HasOtherViolation(m))
                  /\ (k = "symbol" => Len(m.blank_symbol) = 1
                                        /\ \A y \in m.symbols : Chars(y) \cap ReservedSet = {}))
                 => (~fn_out.ok /\ fn_out.error[1] = KindMessage(k))
            /\ \A j, k \in ListedKinds : KindMessage(j) = KindMessage(k) => j = k

C5_Witness ==
    /\ fn_out # FnIdle
    /\ fn_out.fn = "validate"
    /\ ~fn_out.ok
    /\ fn_out.error[1] = "transition starts in rejecting state \"{}\""
    /\ fn_args.machine.accept_state # fn_args.machine.reject_state
    /\ \A j \in ListedKinds \ {"from_reject"} : ~HasViolation(fn_args.machine, j)

-----------------------------------------------------------------------------
(* C6 *)

\* C6, as stated: a machine passes validate only if every transition goes
\* to a state of the state set, writes a symbol of the symbol set and moves
\* in one of the three directions ">", "<", "_".
C6_AsStated ==
    (fn_out # FnIdle /\ fn_out.fn = "validate" /\ fn_out.ok) =>
        \A i \in 1..Len(fn_args.machine.delta) :
            LET action == fn_args.machine.delta[i].action
            IN  /\ action.state \in fn_args.machine.states
                /\ action.symbol \in fn_args.machine.symbols
                /\ action.direction \in {<<">">>, <<"<">>, <<"_">>}

-----------------------------------------------------------------------------
(* C7 *)

\* C7: the output file is written only by a run in which from_json,
\* validate, validate_input and the compilation of every (non-halting
\* state, symbol) pair succeeded, and then it holds the whole grammar; a run
\* whose machine fails a validation check, or whose input has a character
\* outside the symbol set, ends with the file untouched.
C7_NoPartialOutput ==
    /\ out_file.written =>
         /\ pc = "done"
         /\ error = NoError
         /\ Cardinality(SetOf(machine_json.states)) = Len(machine_json.states)
         /\ Cardinality(SetOf(machine_json.symbols)) = Len(machine_json.symbols)
         /\ \A k \in ListedKinds : ~HasViolation(machine, k)
         /\ ~HasOtherViolation(machine)
         /\ InputInAlphabet
         /\ ~HasGap(machine)
         /\ out_file.grammar = machine_tracery
         /\ \A s \in machine.states \ {machine.accept_state, machine.reject_state} :
              \A y \in machine.symbols :
                  (<<"*">> \o s \o <<"*">> \o y) \in DOMAIN out_file.grammar
    /\ pc = "aborted" => (~out_file.written /\ error # NoError)
    /\ (machine # NoMachine /\ pc \notin {"validate", "validate_input"}
          /\ ((\E k \in ListedKinds : HasViolation(machine, k))
                \/ HasOtherViolation(machine) \/ ~InputInAlphabet))
         => pc = "aborted"

C7_Witness ==
    /\ pc = "aborted"
    /\ machine # NoMachine
    /\ \A k \in ListedKinds : ~HasViolation(machine, k)
    /\ ~HasOtherViolation(machine)
    /\ Len(input) = 2
    /\ <<input[1]>> \in machine.symbols
    /\ <<input[2]>> \notin machine.symbols
    /\ ~out_file.written

-----------------------------------------------------------------------------
(* C8 *)

\* C8, as stated: for a machine that passes validate and whose table has no
\* entry for some (non-halting state, symbol) pair, the run completes and
\* writes (|states| - 2) * |symbols| compiled rules.
C8_AsStated ==
    (Validated /\ HasGap(machine) /\ InputInAlphabet /\ pc \in {"aborted", "done"})
        => /\ pc = "done"
           /\ Cardinality(RuleNames(out_file.grammar)) = ClaimedRuleCount(machine)

\* C8, amended: validate does not detect a (non-halting state, symbol) pair
\* without a transition, but the compile loop of main does: the run ends
\* there with a KeyError and the output file is not written.
C8_GapAbortsCompile ==
    (Validated /\ HasGap(machine) /\ InputInAlphabet)
        => /\ validate(machine) = {}
           /\ pc \notin {"write", "done"}
           /\ ~out_file.written
           /\ pc = "aborted" => error[1] = "KeyError"

C8_Witness ==
    /\ pc = "aborted"
    /\ error[1] = "KeyError"
    /\ validate(machine) = {}
    /\ HasGap(machine)
    /\ machine.accept_state # machine.reject_state

-----------------------------------------------------------------------------
(* C9 *)

\* the symbols of a text made of '[tape_right:c]' operations only
RECURSIVE ParsePushes(_)
ParsePushes(text) ==
    IF text = <<>> THEN [ok |-> TRUE, symbols |-> <<>>]
    ELSE IF /\ Len(text) >= Len(Lit_tape_right) + 2
            /\ SubSeq(text, 1, Len(Lit_tape_right)) = Lit_tape_right
            /\ text[Len(Lit_tape_right) + 2] = "]"
    THEN LET rest == ParsePushes(SubSeq(text, Len(Lit_tape_right) + 3, Len(text)))
         IN  [ok |-> rest.ok,
              symbols |-> <<text[Len(Lit_tape_right) + 1]>> \o rest.symbols]
    ELSE [ok |-> FALSE, symbols |-> <<>>]

\* the stack after the pushes are applied in order: a push puts its symbol
\* on top
RECURSIVE ApplyPushes(_, _)
ApplyPushes(stack, pushes) ==
    IF pushes = <<>> THEN stack
    ELSE ApplyPushes(<<Head(pushes)>> \o stack, Tail(pushes))

\* text is one push per input character, last character first, so that the
\* first character ends on top of the stack
IsReversedPushes(text) ==
    LET parsed == ParsePushes(text)
    IN  /\ parsed.ok
        /\ Len(parsed.symbols) = Len(input)
        /\ \A i \in 1..Len(input) : parsed.symbols[i] = input[Len(input) + 1 - i]
        /\ ApplyPushes(<<>>, parsed.symbols) = input
        /\ (input = <<>> => text = <<>>)

\* C9, as stated: once main has set it, init_tape is one push per input
\* character, in reverse input order, and is empty for the empty input.
C9_AsStated ==
    Lit_init_tape \in DOMAIN machine_tracery =>
        IsReversedPushes(machine_tracery[Lit_init_tape])

\* C9, amended: init_tape is one push per input character in reverse input
\* order (empty for the empty input) when main runs without the verbose
\* flag; with the flag the same pushes follow the trace annotation
\* "\n*init_tape*", so init_tape is never empty then.
C9_InitTape ==
    Lit_init_tape \in DOMAIN machine_tracery =>
        LET text == machine_tracery[Lit_init_tape]
            note == <<"\n", "*", "i", "n", "i", "t", "_", "t", "a", "p", "e", "*">>
        IN  IF verbose
            THEN /\ StartsWith(text, note)
                 /\ IsReversedPushes(SubSeq(text, Len(note) + 1, Len(text)))
            ELSE IsReversedPushes(text)

C9_Witness ==
    /\ pc = "done"
    /\ verbose
    /\ Len(input) = 2
    /\ input[1] # input[2]
    /\ Lit_init_tape \in DOMAIN out_file.grammar

-----------------------------------------------------------------------------
(* C10 *)

\* the state a rule body sets: the text between "[state:" and the first "]"
TargetOf(body) ==
    LET close == CHOOSE i \in 1..Len(body) :
                     body[i] = "]" /\ \A j \in 1..(i - 1) : body[j] # "]"
    IN  SubSeq(body, Len(Lit_state) + 1, close - 1)

\* C10: in the grammar written by a completed run no rule is named for the
\* accept or the reject state, and every rule whose body holds the
\* continuation reference sets a state that has a rule for every symbol; a
\* rule without the continuation sets the accept or the reject state.
C10_DispatchClosed ==
    pc = "done" =>
        LET g == out_file.grammar
        IN  /\ \A y \in machine.symbols :
                 /\ StateSymbol_code(machine.accept_state, y) \notin DOMAIN g
                 /\ StateSymbol_code(machine.reject_state, y) \notin DOMAIN g
            /\ \A k \in RuleNames(g) :
                 /\ StartsWith(g[k], Lit_state)
                 /\ TargetOf(g[k]) \in machine.states
                 /\ IF HasContinuation(g[k])
                    THEN \A y \in machine.symbols :
                             StateSymbol_code(TargetOf(g[k]), y) \in RuleNames(g)
                    ELSE TargetOf(g[k]) \in {machine.accept_state, machine.reject_state}

C10_Witness ==
    /\ pc = "done"
    /\ machine.accept_state # machine.reject_state
    /\ \E k \in RuleNames(out_file.grammar) : HasContinuation(out_file.grammar[k])
    /\ \E k \in RuleNames(out_file.grammar) :
         TargetOf(out_file.grammar[k]) = machine.reject_state

====
